---- MODULE Spec2Model ----
(***************************************************************************)
(* F1Picks prediction-scoring engine: the value parsers and scoring        *)
(* algorithms (backend/app/scoring/algorithms.py), the prop-type router    *)
(* and the event scoring orchestrator (backend/app/scoring/service.py)     *)
(* over the persisted tables (events, results, picks, scores, audit).      *)
(*                                                                         *)
(* Numbers that are floats in the source (lap times, margins) are kept as  *)
(* integers in thousandths: 90.5 s is 90500, a margin of 1.0 is 1000.      *)
(* An Optional value is a sequence: <<>> is None, <<v>> is v.              *)
(***************************************************************************)
EXTENDS Integers, Sequences, FiniteSets, TLC

(* ---------------------------------------------------------------- bounds *)

\* Number of score_event invocations a behaviour may start.
MaxRuns == 3

(* ------------------------------------------------------------ enumerations *)

RACE_WINNER == "race_winner"
PODIUM_P1 == "podium_p1"
PODIUM_P2 == "podium_p2"
PODIUM_P3 == "podium_p3"
FASTEST_LAP == "fastest_lap"
POLE_POSITION == "pole_position"
FIRST_RETIREMENT == "first_retirement"
SAFETY_CAR == "safety_car"
LAP_TIME_PREDICTION == "lap_time_prediction"
SECTOR_TIME_PREDICTION == "sector_time_prediction"
PIT_WINDOW_START == "pit_window_start"
PIT_WINDOW_END == "pit_window_end"
TOTAL_PIT_STOPS == "total_pit_stops"

PropType ==
    { RACE_WINNER, PODIUM_P1, PODIUM_P2, PODIUM_P3, FASTEST_LAP, POLE_POSITION,
      FIRST_RETIREMENT, SAFETY_CAR, LAP_TIME_PREDICTION, SECTOR_TIME_PREDICTION,
      PIT_WINDOW_START, PIT_WINDOW_END, TOTAL_PIT_STOPS }

EventStatus == { "scheduled", "live", "completed", "cancelled" }

COMPLETED == "completed"

(* ------------------------------------------------------------- text values *)

\* The stored prediction / actual values the model draws from.
DriverJson == "{\"driver_code\": \"nor\"}"

Texts ==
    { "VER", "HAM", "LEC", "NOR", "ham", "90.5", "90.8", "15", "16", "3", "4",
      "true", "false", "abc", DriverJson }

\* Further stored values handed to the parsers directly: padded text, JSON
\* objects with a padded or non-string field, and spellings of truth values.
PaddedDriverJson == "{\"driver_code\": \" ver \"}"

NumberDriverJson == "{\"driver_code\": 44}"

TimeJson == "{\"time\": 90.5}"

ParserTexts ==
    Texts \cup { " ver ", " true ", PaddedDriverJson, NumberDriverJson, TimeJson,
                 "yes", "Yes", "no", "TRUE", "0", "1", "2" }

None == <<>>

Some(v) == <<v>>

EmptyDict == [k \in {} |-> 0]

\* A decoded JSON value: type is "int", "float", "bool", "str" or "dict"; num is
\* the number in thousandths, b the boolean, s the string, obj the object's
\* fields (each a scalar of the same shape with an empty obj).
JsonScalar(type, num, b, s) == [type |-> type, num |-> num, b |-> b, s |-> s]

JsonValue(type, num, b, s, obj) ==
    [type |-> type, num |-> num, b |-> b, s |-> s, obj |-> obj]

\* json.loads on the texts of the model: ok = FALSE is json.JSONDecodeError.
JsonLoads(value) ==
    CASE value = "true"  -> [ok |-> TRUE, data |-> JsonValue("bool", 1000, TRUE, "", EmptyDict)]
      [] value = "false" -> [ok |-> TRUE, data |-> JsonValue("bool", 0, FALSE, "", EmptyDict)]
      [] value = "90.5"  -> [ok |-> TRUE, data |-> JsonValue("float", 90500, FALSE, "", EmptyDict)]
      [] value = "90.8"  -> [ok |-> TRUE, data |-> JsonValue("float", 90800, FALSE, "", EmptyDict)]
      [] value = "15"    -> [ok |-> TRUE, data |-> JsonValue("int", 15000, FALSE, "", EmptyDict)]
      [] value = "16"    -> [ok |-> TRUE, data |-> JsonValue("int", 16000, FALSE, "", EmptyDict)]
      [] value = "3"     -> [ok |-> TRUE, data |-> JsonValue("int", 3000, FALSE, "", EmptyDict)]
      [] value = "4"     -> [ok |-> TRUE, data |-> JsonValue("int", 4000, FALSE, "", EmptyDict)]
      [] value = "0"     -> [ok |-> TRUE, data |-> JsonValue("int", 0, FALSE, "", EmptyDict)]
      [] value = "1"     -> [ok |-> TRUE, data |-> JsonValue("int", 1000, FALSE, "", EmptyDict)]
      [] value = "2"     -> [ok |-> TRUE, data |-> JsonValue("int", 2000, FALSE, "", EmptyDict)]
      [] value = " true " -> [ok |-> TRUE, data |-> JsonValue("bool", 1000, TRUE, "", EmptyDict)]
      [] value = PaddedDriverJson ->
            [ok |-> TRUE,
             data |-> JsonValue("dict", 0, FALSE, "",
                                [k \in {"driver_code"} |-> JsonScalar("str", 0, FALSE, " ver ")])]
      [] value = NumberDriverJson ->
            [ok |-> TRUE,
             data |-> JsonValue("dict", 0, FALSE, "",
                                [k \in {"driver_code"} |-> JsonScalar("int", 44000, FALSE, "")])]
      [] value = TimeJson ->
            [ok |-> TRUE,
             data |-> JsonValue("dict", 0, FALSE, "",
                                [k \in {"time"} |-> JsonScalar("float", 90500, FALSE, "")])]
      [] value = DriverJson ->
            [ok |-> TRUE,
             data |-> JsonValue("dict", 0, FALSE, "",
                                [k \in {"driver_code"} |-> JsonScalar("str", 0, FALSE, "nor")])]
      [] OTHER -> [ok |-> FALSE, data |-> JsonValue("none", 0, FALSE, "", EmptyDict)]

\* str.upper() and str.strip() on the texts of the model.
PyUpper(s) ==
    CASE s = "ham"   -> "HAM"
      [] s = "nor"   -> "NOR"
      [] s = "abc"   -> "ABC"
      [] s = "true"  -> "TRUE"
      [] s = "false" -> "FALSE"
      [] s = "True"  -> "TRUE"
      [] s = "False" -> "FALSE"
      [] s = DriverJson -> "{\"DRIVER_CODE\": \"NOR\"}"
      [] s = "race_winner" -> "RACE_WINNER"
      [] s = "bogus" -> "BOGUS"
      [] s = " ver "  -> " VER "
      [] s = " true " -> " TRUE "
      [] s = "yes"   -> "YES"
      [] s = "Yes"   -> "YES"
      [] s = "no"    -> "NO"
      [] s = PaddedDriverJson -> "{\"DRIVER_CODE\": \" VER \"}"
      [] s = NumberDriverJson -> "{\"DRIVER_CODE\": 44}"
      [] s = TimeJson -> "{\"TIME\": 90.5}"
      [] OTHER -> s

PyLower(s) ==
    CASE s = "VER" -> "ver"
      [] s = "HAM" -> "ham"
      [] s = "LEC" -> "lec"
      [] s = "NOR" -> "nor"
      [] s = "Yes" -> "yes"
      [] s = "TRUE" -> "true"
      [] OTHER -> s

\* str.strip(): leading and trailing whitespace removed.
PyStrip(s) ==
    CASE s = " ver "  -> "ver"
      [] s = " VER "  -> "VER"
      [] s = " true " -> "true"
      [] s = " TRUE " -> "TRUE"
      [] OTHER -> s

\* str(data) for a decoded scalar.
PyStr(data) ==
    CASE data.type = "bool" -> (IF data.b THEN "True" ELSE "False")
      [] data.type = "str" -> data.s
      [] data.num = 90500 -> "90.5"
      [] data.num = 90800 -> "90.8"
      [] data.num = 15000 -> "15"
      [] data.num = 16000 -> "16"
      [] data.num = 3000 -> "3"
      [] data.num = 4000 -> "4"
      [] data.num = 0 -> "0"
      [] data.num = 1000 -> "1"
      [] data.num = 2000 -> "2"
      [] OTHER -> ""

\* The outcome of a call: its return value, or an exception raised.
Returned(v) == [raised |-> FALSE, val |-> v]

Raised(v) == [raised |-> TRUE, val |-> v]

(* ----------------------------------------------------------- value parsers *)

parse_driver_code(value) ==
    LET j == JsonLoads(value) IN
    IF j.ok
    THEN IF j.data.type = "dict"
         THEN IF "driver_code" \in DOMAIN j.data.obj
              THEN IF j.data.obj["driver_code"].type = "str"
                   THEN Returned(PyUpper(j.data.obj["driver_code"].s))
                   ELSE Raised("")
              ELSE Returned(PyUpper(""))
         ELSE Returned(PyUpper(PyStr(j.data)))
    ELSE Returned(PyStrip(PyUpper(value)))

\* float(value) on a text json.loads rejected raises ValueError: every such text
\* of the model is non-numeric.
parse_time_value(value) ==
    LET j == JsonLoads(value) IN
    IF j.ok
    THEN IF j.data.type = "dict"
         THEN IF "time" \in DOMAIN j.data.obj
              THEN IF j.data.obj["time"].type = "str"
                   THEN Raised(0)
                   ELSE Returned(j.data.obj["time"].num)
              ELSE Returned(0)
         ELSE Returned(j.data.num)
    ELSE Raised(0)

\* int() truncates a float towards zero; the numbers of the model are >= 0.
parse_lap_number(value) ==
    LET j == JsonLoads(value) IN
    IF j.ok
    THEN IF j.data.type = "dict"
         THEN IF "lap" \in DOMAIN j.data.obj
              THEN IF j.data.obj["lap"].type = "str"
                   THEN Raised(0)
                   ELSE Returned(j.data.obj["lap"].num \div 1000)
              ELSE Returned(0)
         ELSE Returned(j.data.num \div 1000)
    ELSE Raised(0)

PyBool(data) ==
    CASE data.type = "bool" -> data.b
      [] data.type = "str" -> data.s /= ""
      [] data.type = "dict" -> DOMAIN data.obj /= {}
      [] OTHER -> data.num /= 0

parse_boolean_value(value) ==
    LET j == JsonLoads(value) IN
    IF j.ok
    THEN IF j.data.type = "dict"
         THEN IF "value" \in DOMAIN j.data.obj
              THEN Returned(PyBool(j.data.obj["value"]))
              ELSE Returned(FALSE)
         ELSE Returned(PyBool(j.data))
    ELSE Returned(PyLower(value) \in {"true", "yes", "1"})

(* ------------------------------------------------------ scoring algorithms *)

ScoringResult(points, margin, exact_match, metadata) ==
    [points |-> points, margin |-> margin, exact_match |-> exact_match,
     metadata |-> metadata]

EXACT_MATCH_POINTS == 10

NEAR_MATCH_POINTS_four(position_diff) ==
    CASE position_diff = 1 -> 7
      [] position_diff = 2 -> 4
      [] position_diff = 3 -> 2
      [] position_diff = 4 -> 2
      [] OTHER -> 0

\* NEAR_MATCH_POINTS.get(position_diff, 0)
NEAR_MATCH_POINTS(position_diff) ==
    CASE position_diff = 1 -> 7
      [] position_diff = 2 -> 4
      [] position_diff = 3 -> 2
      [] OTHER -> 0

Abs(x) == IF x < 0 THEN -x ELSE x

_get_expected_position(prop_type) ==
    CASE prop_type = RACE_WINNER -> 1
      [] prop_type = PODIUM_P1 -> 1
      [] prop_type = PODIUM_P2 -> 2
      [] prop_type = PODIUM_P3 -> 3
      [] prop_type = POLE_POSITION -> 1
      [] OTHER -> 1

\* all_results maps driver codes to finishing positions.
score_driver_position(predicted_driver, actual_driver, all_results, prop_type) ==
    IF predicted_driver = actual_driver
    THEN ScoringResult(EXACT_MATCH_POINTS, Some(0), TRUE, "exact_match")
    ELSE IF predicted_driver \notin DOMAIN all_results
         THEN ScoringResult(0, Some(20000), FALSE, "dnf")
         ELSE LET predicted_position == all_results[predicted_driver]
                  expected_position == _get_expected_position(prop_type)
                  position_diff == Abs(predicted_position - expected_position)
                  points == NEAR_MATCH_POINTS(position_diff)
              IN  ScoringResult(points, Some(position_diff * 1000), FALSE,
                                IF points > 0 THEN "near_match" ELSE "miss")

score_fastest_lap_inclusive(predicted_driver, actual_driver, all_lap_times) ==
    IF predicted_driver = actual_driver
    THEN ScoringResult(EXACT_MATCH_POINTS, Some(0), TRUE, "exact_match")
    ELSE IF predicted_driver \notin DOMAIN all_lap_times
            \/ actual_driver \notin DOMAIN all_lap_times
         THEN ScoringResult(0, None, FALSE, "no_data")
         ELSE LET time_diff ==
                      Abs(all_lap_times[predicted_driver] - all_lap_times[actual_driver])
                  points == IF time_diff <= 500 THEN 7
                            ELSE IF time_diff <= 1000 THEN 4
                            ELSE IF time_diff <= 2000 THEN 2
                            ELSE 0
              IN  ScoringResult(points, Some(time_diff), FALSE,
                                IF points > 0 THEN "near_match" ELSE "miss")

\* all_lap_times maps driver codes to lap times (thousandths of a second).
score_fastest_lap(predicted_driver, actual_driver, all_lap_times) ==
    IF predicted_driver = actual_driver
    THEN ScoringResult(EXACT_MATCH_POINTS, Some(0), TRUE, "exact_match")
    ELSE IF predicted_driver \notin DOMAIN all_lap_times
            \/ actual_driver \notin DOMAIN all_lap_times
         THEN ScoringResult(0, None, FALSE, "no_data")
         ELSE LET time_diff ==
                      Abs(all_lap_times[predicted_driver] - all_lap_times[actual_driver])
                  points == IF time_diff < 500 THEN 7
                            ELSE IF time_diff < 1000 THEN 4
                            ELSE IF time_diff < 2000 THEN 2
                            ELSE 0
              IN  ScoringResult(points, Some(time_diff), FALSE,
                                IF points > 0 THEN "near_match" ELSE "miss")

\* percentage_error = time_diff / actual_time * 100 compared with a threshold of
\* tenths per cent: percentage_error < t / 10, for actual_time > 0, is
\* time_diff * 1000 < t * actual_time. A zero actual_time raises
\* ZeroDivisionError.
PercentageErrorBelow(time_diff, actual_time, tenths) ==
    IF actual_time > 0
    THEN time_diff * 1000 < tenths * actual_time
    ELSE time_diff * 1000 > tenths * actual_time

score_lap_time_exact_by_tier(predicted_time, actual_time) ==
    LET time_diff == Abs(predicted_time - actual_time)
        points == IF PercentageErrorBelow(time_diff, actual_time, 5) THEN 10
                  ELSE IF PercentageErrorBelow(time_diff, actual_time, 10) THEN 8
                  ELSE IF PercentageErrorBelow(time_diff, actual_time, 20) THEN 6
                  ELSE IF PercentageErrorBelow(time_diff, actual_time, 30) THEN 4
                  ELSE IF PercentageErrorBelow(time_diff, actual_time, 50) THEN 2
                  ELSE 0
    IN  IF actual_time = 0
        THEN Raised(ScoringResult(0, None, FALSE, "ZeroDivisionError"))
        ELSE Returned(ScoringResult(points, Some(time_diff), points = 10, "time"))

score_lap_time(predicted_time, actual_time) ==
    LET time_diff == Abs(predicted_time - actual_time)
        points == IF PercentageErrorBelow(time_diff, actual_time, 5) THEN 10
                  ELSE IF PercentageErrorBelow(time_diff, actual_time, 10) THEN 8
                  ELSE IF PercentageErrorBelow(time_diff, actual_time, 20) THEN 6
                  ELSE IF PercentageErrorBelow(time_diff, actual_time, 30) THEN 4
                  ELSE IF PercentageErrorBelow(time_diff, actual_time, 50) THEN 2
                  ELSE 0
        exact_match == time_diff < 10
    IN  IF actual_time = 0
        THEN Raised(ScoringResult(0, None, FALSE, "ZeroDivisionError"))
        ELSE Returned(ScoringResult(points, Some(time_diff), exact_match, "time"))

score_pit_window_under_five(predicted_lap, actual_lap) ==
    LET lap_diff == Abs(predicted_lap - actual_lap)
        points == IF lap_diff = 0 THEN 10
                  ELSE IF lap_diff = 1 THEN 7
                  ELSE IF lap_diff = 2 THEN 5
                  ELSE IF lap_diff = 3 THEN 3
                  ELSE IF lap_diff < 5 THEN 1
                  ELSE 0
    IN  ScoringResult(points, Some(lap_diff * 1000), lap_diff = 0, "lap")

score_pit_window(predicted_lap, actual_lap) ==
    LET lap_diff == Abs(predicted_lap - actual_lap)
        points == IF lap_diff = 0 THEN 10
                  ELSE IF lap_diff = 1 THEN 7
                  ELSE IF lap_diff = 2 THEN 5
                  ELSE IF lap_diff = 3 THEN 3
                  ELSE IF lap_diff <= 5 THEN 1
                  ELSE 0
    IN  ScoringResult(points, Some(lap_diff * 1000), lap_diff = 0, "lap")

score_boolean_prediction_both_true(predicted_value, actual_value) ==
    LET exact_match == predicted_value /\ actual_value
        points == IF exact_match THEN EXACT_MATCH_POINTS ELSE 0
    IN  ScoringResult(points, IF exact_match THEN Some(0) ELSE Some(1000),
                      exact_match, "boolean")

score_boolean_prediction_margin_swapped(predicted_value, actual_value) ==
    LET exact_match == predicted_value = actual_value
        points == IF exact_match THEN EXACT_MATCH_POINTS ELSE 0
    IN  ScoringResult(points, IF exact_match THEN Some(1000) ELSE Some(0),
                      exact_match, "boolean")

score_boolean_prediction(predicted_value, actual_value) ==
    LET exact_match == predicted_value = actual_value
        points == IF exact_match THEN EXACT_MATCH_POINTS ELSE 0
    IN  ScoringResult(points, IF exact_match THEN Some(0) ELSE Some(1000),
                      exact_match, "boolean")

score_count_prediction_linear(predicted_count, actual_count) ==
    LET diff == Abs(predicted_count - actual_count)
    IN  ScoringResult(10 - 4 * diff, Some(diff * 1000), diff = 0, "count")

score_count_prediction(predicted_count, actual_count) ==
    LET diff == Abs(predicted_count - actual_count)
        points == IF diff = 0 THEN 10
                  ELSE IF diff = 1 THEN 6
                  ELSE IF diff = 2 THEN 3
                  ELSE 0
    IN  ScoringResult(points, Some(diff * 1000), diff = 0, "count")

(* ------------------------------------------------------- prop-type router *)

\* result_metadata.get(key, {}) when result_metadata is truthy, else {}.
MetadataDict(result_metadata, key) ==
    IF key \in DOMAIN result_metadata THEN result_metadata[key] ELSE EmptyDict

_score_driver_position(pick, results) ==
    LET predicted_driver == parse_driver_code(pick.prop_value)
        actual_result == results[1]
        actual_driver == parse_driver_code(actual_result.actual_value)
        all_results == MetadataDict(actual_result.result_metadata, "finishing_order")
    IN  IF predicted_driver.raised \/ actual_driver.raised
        THEN Raised(ScoringResult(0, None, FALSE, "AttributeError"))
        ELSE Returned(score_driver_position(predicted_driver.val, actual_driver.val,
                                            all_results, pick.prop_type))

_score_fastest_lap(pick, results) ==
    LET predicted_driver == parse_driver_code(pick.prop_value)
        actual_result == results[1]
        actual_driver == parse_driver_code(actual_result.actual_value)
        all_lap_times == MetadataDict(actual_result.result_metadata, "lap_times")
    IN  IF predicted_driver.raised \/ actual_driver.raised
        THEN Raised(ScoringResult(0, None, FALSE, "AttributeError"))
        ELSE Returned(score_fastest_lap(predicted_driver.val, actual_driver.val,
                                        all_lap_times))

_score_time_prediction(pick, results) ==
    LET predicted_time == parse_time_value(pick.prop_value)
        actual_time == parse_time_value(results[1].actual_value)
    IN  IF predicted_time.raised \/ actual_time.raised
        THEN Raised(ScoringResult(0, None, FALSE, "ValueError"))
        ELSE score_lap_time(predicted_time.val, actual_time.val)

_score_pit_window(pick, results) ==
    LET predicted_lap == parse_lap_number(pick.prop_value)
        actual_lap == parse_lap_number(results[1].actual_value)
    IN  IF predicted_lap.raised \/ actual_lap.raised
        THEN Raised(ScoringResult(0, None, FALSE, "ValueError"))
        ELSE Returned(score_pit_window(predicted_lap.val, actual_lap.val))

_score_boolean_last(pick, results) ==
    LET predicted_value == parse_boolean_value(pick.prop_value)
        actual_value == parse_boolean_value(results[Len(results)].actual_value)
    IN  Returned(score_boolean_prediction(predicted_value.val, actual_value.val))

_score_boolean(pick, results) ==
    LET predicted_value == parse_boolean_value(pick.prop_value)
        actual_value == parse_boolean_value(results[1].actual_value)
    IN  Returned(score_boolean_prediction(predicted_value.val, actual_value.val))

_score_count(pick, results) ==
    LET predicted_count == parse_lap_number(pick.prop_value)
        actual_count == parse_lap_number(results[1].actual_value)
    IN  IF predicted_count.raised \/ actual_count.raised
        THEN Raised(ScoringResult(0, None, FALSE, "ValueError"))
        ELSE Returned(score_count_prediction(predicted_count.val, actual_count.val))

_organize_results_ungrouped(results) == [t \in PropType |-> results]

\* results_by_type maps each prop type that has a Result to its Result rows, in
\* the order the query returned them.
_organize_results(results) ==
    [t \in { results[k].prop_type : k \in DOMAIN results } |->
        SelectSeq(results, LAMBDA row : row.prop_type = t)]

_score_pick(pick, results_by_type) ==
    LET prop_type == pick.prop_type
        results == IF prop_type \in DOMAIN results_by_type
                   THEN results_by_type[prop_type] ELSE <<>>
    IN  IF results = <<>>
        THEN Returned(ScoringResult(0, None, FALSE,
                 "error: No results available for this prediction type"))
        ELSE IF prop_type \in { RACE_WINNER, PODIUM_P1, PODIUM_P2, PODIUM_P3,
                                POLE_POSITION, FIRST_RETIREMENT }
        THEN _score_driver_position(pick, results)
        ELSE IF prop_type = FASTEST_LAP
        THEN _score_fastest_lap(pick, results)
        ELSE IF prop_type \in { LAP_TIME_PREDICTION, SECTOR_TIME_PREDICTION }
        THEN _score_time_prediction(pick, results)
        ELSE IF prop_type \in { PIT_WINDOW_START, PIT_WINDOW_END }
        THEN _score_pit_window(pick, results)
        ELSE IF prop_type = SAFETY_CAR
        THEN _score_boolean(pick, results)
        ELSE IF prop_type = TOTAL_PIT_STOPS
        THEN _score_count(pick, results)
        ELSE Returned(ScoringResult(0, None, FALSE, "error: Unsupported prop type"))

(* ------------------------------------------------------------------ tables *)

EventIds == { "e1", "e2" }

Pick(id, user_id, event_id, prop_type, prop_value) ==
    [id |-> id, user_id |-> user_id, event_id |-> event_id,
     prop_type |-> prop_type, prop_value |-> prop_value]

Result(event_id, prop_type, actual_value, result_metadata) ==
    [event_id |-> event_id, prop_type |-> prop_type,
     actual_value |-> actual_value, result_metadata |-> result_metadata]

Score(id, pick_id, user_id, score_result) ==
    [id |-> id, pick_id |-> pick_id, user_id |-> user_id,
     points |-> score_result.points, margin |-> score_result.margin,
     exact_match |-> score_result.exact_match,
     scoring_metadata |-> score_result.metadata]

\* The fixture of scripts/test_scoring.py: one completed event, 8 picks of one
\* user and the 8 results of the same categories.
FixtureFinishingOrder ==
    [d \in { "VER", "HAM", "LEC", "NOR", "SAI" } |->
        CASE d = "VER" -> 1 [] d = "HAM" -> 2 [] d = "LEC" -> 3
          [] d = "NOR" -> 4 [] OTHER -> 5]

FixtureLapTimes ==
    [d \in { "VER", "HAM", "LEC", "NOR" } |->
        CASE d = "VER" -> 89123 [] d = "HAM" -> 89456 [] d = "LEC" -> 89789
          [] OTHER -> 90012]

PositionMetadata == [k \in { "finishing_order" } |-> FixtureFinishingOrder]

create_test_picks ==
    << Pick("p1", "u1", "e1", RACE_WINNER, "VER"),
       Pick("p2", "u1", "e1", PODIUM_P2, "LEC"),
       Pick("p3", "u1", "e1", PODIUM_P3, "NOR"),
       Pick("p4", "u1", "e1", FASTEST_LAP, "HAM"),
       Pick("p5", "u1", "e1", LAP_TIME_PREDICTION, "90.5"),
       Pick("p6", "u1", "e1", PIT_WINDOW_START, "15"),
       Pick("p7", "u1", "e1", SAFETY_CAR, "true"),
       Pick("p8", "u1", "e1", TOTAL_PIT_STOPS, "3") >>

create_test_results ==
    << Result("e1", RACE_WINNER, "VER", PositionMetadata),
       Result("e1", PODIUM_P2, "HAM", PositionMetadata),
       Result("e1", PODIUM_P3, "NOR", PositionMetadata),
       Result("e1", FASTEST_LAP, "VER", [k \in { "lap_times" } |-> FixtureLapTimes]),
       Result("e1", LAP_TIME_PREDICTION, "90.8", [k \in { "lap" } |-> EmptyDict]),
       Result("e1", PIT_WINDOW_START, "16", [k \in { "driver" } |-> EmptyDict]),
       Result("e1", SAFETY_CAR, "true", EmptyDict),
       Result("e1", TOTAL_PIT_STOPS, "4", EmptyDict) >>

FixtureDb ==
    [events |-> [e \in { "e1" } |-> COMPLETED],
     results |-> create_test_results,
     picks |-> create_test_picks]

\* Other contents of the tables: event e1 in any status, with no result, a
\* race-winner result, or a race-winner and a lap-time result; its picks include
\* a lap-time pick that is not a number and a driver pick sent as a JSON object.
\* Event e2, when it exists, is completed and has a result and a pick of its own.
ResultChoices ==
    { <<>>,
      << Result("e1", RACE_WINNER, "VER", PositionMetadata) >>,
      << Result("e1", RACE_WINNER, "VER", PositionMetadata),
         Result("e1", LAP_TIME_PREDICTION, "90.8", EmptyDict) >> }

PickChoices ==
    { <<>>,
      << Pick("p1", "u1", "e1", RACE_WINNER, "ham") >>,
      << Pick("p1", "u1", "e1", LAP_TIME_PREDICTION, "abc"),
         Pick("p2", "u2", "e1", LAP_TIME_PREDICTION, "90.5"),
         Pick("p3", "u2", "e1", RACE_WINNER, DriverJson) >> }

OtherEventResults == << Result("e2", SAFETY_CAR, "true", EmptyDict) >>

OtherEventPicks == << Pick("p9", "u1", "e2", SAFETY_CAR, "false") >>

SmallDbs ==
    { [events |-> IF other THEN [e \in { "e1", "e2" } |-> IF e = "e1" THEN st ELSE COMPLETED]
                  ELSE [e \in { "e1" } |-> st],
       results |-> IF other THEN OtherEventResults \o rs ELSE rs,
       picks |-> IF other THEN ps \o OtherEventPicks ELSE ps] :
      st \in EventStatus, rs \in ResultChoices, ps \in PickChoices, other \in BOOLEAN }

(* ------------------------------------------------------------ repositories *)

\* A session's uncommitted work is a sequence of pending operations; what the
\* session reads is the committed table with its own operations applied.
InsertOp(row) == [op |-> "insert", row |-> row]

UpdateOp(id, fields) == [op |-> "update", id |-> id, fields |-> fields]

ApplyUpdate(row, fields) ==
    [row EXCEPT !.points = IF fields.points /= None THEN fields.points[1] ELSE @,
                !.margin = IF fields.margin /= None THEN fields.margin ELSE @,
                !.exact_match = IF fields.exact_match /= None THEN fields.exact_match[1] ELSE @,
                !.scoring_metadata = IF fields.scoring_metadata /= None
                                     THEN fields.scoring_metadata[1] ELSE @]

RECURSIVE View(_, _)
View(table, ops) ==
    IF ops = <<>> THEN table
    ELSE LET o == Head(ops)
             applied == IF o.op = "insert" THEN Append(table, o.row)
                        ELSE [k \in DOMAIN table |->
                                 IF table[k].id = o.id
                                 THEN ApplyUpdate(table[k], o.fields) ELSE table[k]]
         IN View(applied, Tail(ops))

\* self.score_repo.get_by_pick_id(pick.id): neither ScoreRepository nor
\* BaseRepository defines the method, so the attribute lookup raises
\* AttributeError before any query is sent.
get_by_pick_id_lookup(rows, pick_id) ==
    LET found == SelectSeq(rows, LAMBDA row : row.pick_id = pick_id)
    IN Returned(IF found = <<>> THEN None ELSE Some(found[1]))

get_by_pick_id_none(rows, pick_id) == Returned(None)

get_by_pick_id(rows, pick_id) == Raised(None)

\* BaseRepository.update keeps only the fields that are neither None nor "":
\* points (0 included), exact_match and the metadata dict always pass, a margin
\* of None is dropped.
update(id, score_result) ==
    UpdateOp(id, [points |-> Some(score_result.points),
                  margin |-> score_result.margin,
                  exact_match |-> Some(score_result.exact_match),
                  scoring_metadata |-> Some(score_result.metadata)])

\* Score.pick_id is unique: the flush in BaseRepository.create raises
\* IntegrityError when the session already sees a row of the same pick.
UniqueViolation(rows, pick_id) == \E k \in DOMAIN rows : rows[k].pick_id = pick_id

create(rows, row) ==
    IF UniqueViolation(rows, row.pick_id) THEN Raised(<<>>) ELSE Returned(<< InsertOp(row) >>)

_create_audit_log_swapped(event_id, picks_scored, scores_created, scores_updated, total_points) ==
    [entity_type |-> "EVENT", entity_id |-> event_id, action |-> "SCORE_CALCULATED",
     audit_metadata |-> [picks_scored |-> scores_created, scores_created |-> picks_scored,
                         scores_updated |-> scores_updated, total_points |-> total_points]]

_create_audit_log(event_id, picks_scored, scores_created, scores_updated, total_points) ==
    [entity_type |-> "EVENT", entity_id |-> event_id, action |-> "SCORE_CALCULATED",
     audit_metadata |-> [picks_scored |-> picks_scored, scores_created |-> scores_created,
                         scores_updated |-> scores_updated, total_points |-> total_points]]

(* ------------------------------------------------------------ state machine *)

VARIABLES
    events,     \* Event table: event id -> status, for the events that exist
    results,    \* Result table
    picks,      \* Pick table
    scores,     \* committed Score rows
    audits,     \* committed Audit rows
    run,        \* the score_event calls in progress, one per request slot
    started,    \* number of score_event calls made so far
    log,        \* the finished calls, in order of completion
    call,       \* a direct call of a function or API endpoint: its arguments and outcome
    now,        \* the clock reading (datetime.now), in ticks
    schedule,   \* Event table, timing columns: event id -> start_time, end_time, session_type
    worker      \* the worker's ingest_session_results call in progress

vars == << events, results, picks, scores, audits, run, started, log, call,
           now, schedule, worker >>

\* No direct call: fn names the function, args its arguments, out is <<>> until
\* the function has returned and then holds its outcome.
NoCall == [fn |-> "", args |-> << >>, out |-> << >>]

Slots == { 1, 2 }

\* The worker is not ingesting.
WorkerIdle ==
    [pc |-> "idle", event_id |-> "", results_data |-> << >>, status_code |-> 0,
     returned |-> << >>]

Idle ==
    [pc |-> "idle", event_id |-> "", serial |-> 0, began |-> 0,
     found |-> FALSE, status |-> "", n_results |-> 0,
     results_by_type |-> EmptyDict, picks |-> << >>, i |-> 1,
     scores_created |-> 0, scores_updated |-> 0, total_points |-> 0,
     tx |-> << >>, scores_before |-> << >>]

Init ==
    /\ \E db \in SmallDbs \cup { FixtureDb } :
          /\ events = db.events
          /\ results = db.results
          /\ picks = db.picks
    /\ scores = << >>
    /\ audits = << >>
    /\ run = [r \in Slots |-> Idle]
    /\ started = 0
    /\ log = << >>
    /\ call = NoCall
    /\ now = 0
    /\ schedule = EmptyDict
    /\ worker = WorkerIdle

Summary(rn) ==
    [event_id |-> rn.event_id, picks_scored |-> Len(rn.picks),
     scores_created |-> rn.scores_created, scores_updated |-> rn.scores_updated,
     total_points |-> rn.total_points]

NoSummary ==
    [event_id |-> "", picks_scored |-> 0, scores_created |-> 0,
     scores_updated |-> 0, total_points |-> 0]

LogEntry(rn, ok, error, summary, after) ==
    [serial |-> rn.serial, event_id |-> rn.event_id, began |-> rn.began,
     found |-> rn.found, status |-> rn.status, n_results |-> rn.n_results,
     ok |-> ok, error |-> error, summary |-> summary, picks |-> rn.picks,
     results_by_type |-> rn.results_by_type,
     scores_before |-> rn.scores_before, scores_after |-> after]

VerifyEventFoundOnly(found, status) == IF ~found THEN "not found" ELSE ""

\* The check of lines 49-54: "" when the event passes, else the ValueError.
VerifyEvent(found, status) ==
    IF ~found THEN "not found"
    ELSE IF status /= COMPLETED THEN "is not completed"
    ELSE ""

\* trigger_scoring: a request for event e arrives; score_event reads the event
\* and raises ValueError (HTTP 400) unless it exists and is completed.
Trigger(r, e) ==
    /\ run[r].pc = "idle"
    /\ started < MaxRuns
    /\ started' = started + 1
    /\ LET found == e \in DOMAIN events
           status == IF found THEN events[e] ELSE ""
           error == VerifyEvent(found, status)
           rn == [Idle EXCEPT !.event_id = e, !.serial = started + 1,
                              !.began = Len(log), !.found = found,
                              !.status = status, !.scores_before = scores]
       IN IF error /= ""
          THEN /\ run' = [run EXCEPT ![r] = [rn EXCEPT !.pc = "done"]]
               /\ log' = Append(log, LogEntry(rn, FALSE, error, NoSummary, scores))
          ELSE /\ run' = [run EXCEPT ![r] = [rn EXCEPT !.pc = "results"]]
               /\ log' = log
    /\ UNCHANGED << events, results, picks, scores, audits, call, now, schedule, worker >>

\* Lines 57-65: select the event's results; none -> ValueError.
LoadResults(r) ==
    /\ run[r].pc = "results"
    /\ LET rows == SelectSeq(results, LAMBDA row : row.event_id = run[r].event_id)
           rn == [run[r] EXCEPT !.n_results = Len(rows)]
       IN IF rows = << >>
          THEN /\ run' = [run EXCEPT ![r] = [rn EXCEPT !.pc = "done"]]
               /\ log' = Append(log, LogEntry(rn, FALSE, "No results found", NoSummary, scores))
          ELSE /\ run' = [run EXCEPT ![r] = [rn EXCEPT !.pc = "picks",
                                                !.results_by_type = _organize_results(rows)]]
               /\ log' = log
    /\ UNCHANGED << events, results, picks, scores, audits, started, call, now, schedule, worker >>

LoadPicksOrFail(r) ==
    /\ run[r].pc = "picks"
    /\ LET rows == SelectSeq(picks, LAMBDA row : row.event_id = run[r].event_id)
       IN IF rows = << >>
          THEN /\ run' = [run EXCEPT ![r] = [@ EXCEPT !.pc = "done"]]
               /\ log' = Append(log, LogEntry(run[r], FALSE, "No picks found", NoSummary, scores))
          ELSE /\ run' = [run EXCEPT ![r] = [@ EXCEPT !.pc = "loop", !.picks = rows, !.i = 1]]
               /\ log' = log
    /\ UNCHANGED << events, results, picks, scores, audits, started, call, now, schedule, worker >>

\* Lines 68-75: select the event's picks and zero the counters.
LoadPicks(r) ==
    /\ run[r].pc = "picks"
    /\ run' = [run EXCEPT ![r] = [@ EXCEPT
                  !.pc = "loop",
                  !.picks = SelectSeq(picks, LAMBDA row : row.event_id = run[r].event_id),
                  !.i = 1]]
    /\ UNCHANGED << events, results, picks, scores, audits, started, log, call, now, schedule, worker >>

\* One iteration of the loop of lines 77-111 for the pick at the cursor, on
\* the rows the session sees.  Any exception raised inside the try block is
\* caught and the loop continues with the next pick.
ScoreOnePick(rn, rows) ==
    LET pick == rn.picks[rn.i]
        score_result == _score_pick(pick, rn.results_by_type)
        existing_score == get_by_pick_id(rows, pick.id)
        skipped == [rn EXCEPT !.i = rn.i + 1]
        created == create(rows, Score(<< rn.serial, pick.id >>, pick.id,
                                      pick.user_id, score_result.val))
    IN IF score_result.raised THEN skipped
       ELSE IF existing_score.raised THEN skipped
       ELSE IF existing_score.val /= None
       THEN [skipped EXCEPT
                !.tx = Append(rn.tx, update(existing_score.val[1].id, score_result.val)),
                !.scores_updated = rn.scores_updated + 1,
                !.total_points = rn.total_points + score_result.val.points]
       ELSE IF created.raised
       THEN \* IntegrityError: BaseRepository.create rolls the session back
            [skipped EXCEPT !.tx = << >>]
       ELSE [skipped EXCEPT
                !.tx = rn.tx \o created.val,
                !.scores_created = rn.scores_created + 1,
                !.total_points = rn.total_points + score_result.val.points]

\* An INSERT of a pick_id that another open transaction has inserted waits for
\* that transaction to end.
PendingInsert(ops, pick_id) ==
    \E k \in DOMAIN ops : ops[k].op = "insert" /\ ops[k].row.pick_id = pick_id

WouldInsert(rn, rows) ==
    LET after == ScoreOnePick(rn, rows)
    IN Len(after.tx) = Len(rn.tx) + 1 /\ after.tx[Len(after.tx)].op = "insert"

ScorePick(r) ==
    /\ run[r].pc = "loop"
    /\ run[r].i <= Len(run[r].picks)
    /\ LET rows == View(scores, run[r].tx)
       IN /\ WouldInsert(run[r], rows) =>
                \A o \in Slots \ { r } :
                    ~PendingInsert(run[o].tx, run[r].picks[run[r].i].id)
          /\ run' = [run EXCEPT ![r] = ScoreOnePick(run[r], rows)]
    /\ UNCHANGED << events, results, picks, scores, audits, started, log, call, now, schedule, worker >>

\* Lines 113-130: add the audit row, commit the session, return the summary.
Finish(r) ==
    /\ run[r].pc = "loop"
    /\ run[r].i > Len(run[r].picks)
    /\ LET rn == run[r]
           after == View(scores, rn.tx)
       IN /\ audits' = Append(audits, _create_audit_log(rn.event_id, Len(rn.picks),
                                  rn.scores_created, rn.scores_updated, rn.total_points))
          /\ scores' = after
          /\ log' = Append(log, LogEntry(rn, TRUE, "", Summary(rn), after))
          /\ run' = [run EXCEPT ![r] = [rn EXCEPT !.pc = "done", !.tx = << >>]]
    /\ UNCHANGED << events, results, picks, started, call, now, schedule, worker >>

\* The response is sent and the request slot is free again.
Respond(r) ==
    /\ run[r].pc = "done"
    /\ run' = [run EXCEPT ![r] = Idle]
    /\ UNCHANGED << events, results, picks, scores, audits, started, log, call, now, schedule, worker >>

Next ==
    \/ \E r \in Slots, e \in EventIds : Trigger(r, e)
    \/ \E r \in Slots : LoadResults(r)
    \/ \E r \in Slots : LoadPicks(r)
    \/ \E r \in Slots : ScorePick(r)
    \/ \E r \in Slots : Finish(r)
    \/ \E r \in Slots : Respond(r)

Spec == Init /\ [][Next]_vars

(* ------------------------------------------------------------- properties *)

RECURSIVE SumPoints(_)
SumPoints(rows) == IF rows = << >> THEN 0 ELSE Head(rows).points + SumPoints(Tail(rows))

ScoresOfPick(rows, pick_id) == SelectSeq(rows, LAMBDA row : row.pick_id = pick_id)

CompletedRuns == SelectSeq(log, LAMBDA entry : entry.ok)

\* Entry k is a re-run of entry j: same event, both completed, k was triggered
\* after j had finished and no other call finished in between.
Rerun(j, k) ==
    /\ k = j + 1
    /\ log[k].began = j
    /\ log[j].ok /\ log[k].ok
    /\ log[j].event_id = log[k].event_id

\* Entries j and k overlapped in time: k was triggered before j finished.
Overlapped(j, k) ==
    /\ j < k
    /\ log[k].began < j
    /\ log[j].ok /\ log[k].ok
    /\ log[j].event_id = log[k].event_id

MustAbort(entry) ==
    \/ ~entry.found
    \/ entry.status /= COMPLETED
    \/ entry.n_results = 0

Scorable(entry, pick) == ~_score_pick(pick, entry.results_by_type).raised

\* C2: when score_event is run again for the same completed event with the
\* picks and results unchanged, the Score rows after the second run are the
\* rows after the first, the second run reports scores_created = 0 and its
\* scores_updated equals the first run's scores_created + scores_updated.
C2_RerunIsIdempotent ==
    \A j \in DOMAIN log : \A k \in DOMAIN log :
        Rerun(j, k) =>
            /\ log[k].scores_after = log[j].scores_after
            /\ log[k].summary.scores_created = 0
            /\ log[k].summary.scores_updated =
                  log[j].summary.scores_created + log[j].summary.scores_updated

C2_Witness ==
    \E j \in DOMAIN log : \E k \in DOMAIN log :
        /\ Rerun(j, k)
        /\ Len(log[j].picks) = 3
        /\ \E n \in 1..3 : Scorable(log[j], log[j].picks[n])

\* C3: a call for an event that does not exist, is not COMPLETED or has no
\* Result row ends with an error, and the step in which it ends changes
\* neither the Score table nor the Audit table and has nothing to commit.
C3_AbortWritesNothing ==
    /\ [](\A k \in DOMAIN log : MustAbort(log[k]) => ~log[k].ok /\ log[k].error /= "")
    /\ [][\A r \in Slots :
             (run[r].pc # "done" /\ run'[r].pc = "done" /\ MustAbort(run'[r])) =>
                 /\ scores' = scores
                 /\ audits' = audits
                 /\ run[r].tx = << >>]_vars

C3_Witness ==
    /\ \E k \in DOMAIN log : ~log[k].found /\ ~log[k].ok
    /\ \E k \in DOMAIN log :
          /\ log[k].found /\ log[k].status = COMPLETED /\ log[k].n_results = 0
          /\ ~log[k].ok
          /\ \E n \in DOMAIN picks : picks[n].event_id = log[k].event_id
    /\ scores = << >>
    /\ audits = << >>

C9_OneAuditPerCompletedRun ==
    /\ Len(audits) = Len(CompletedRuns)
    /\ \A k \in DOMAIN audits :
          LET summary == CompletedRuns[k].summary
          IN /\ audits[k].entity_type = "EVENT"
             /\ audits[k].entity_id = CompletedRuns[k].event_id
             /\ audits[k].action = "SCORE_CALCULATED"
             /\ audits[k].audit_metadata =
                   [picks_scored |-> summary.picks_scored,
                    scores_created |-> summary.scores_created,
                    scores_updated |-> summary.scores_updated,
                    total_points |-> summary.total_points]

C9_Witness ==
    /\ Len(log) = 3
    /\ Len(CompletedRuns) = 2
    /\ Len(audits) = 2
    /\ \E k \in DOMAIN log : ~log[k].ok
    /\ \E k \in DOMAIN log : log[k].ok /\ Len(log[k].picks) > 0

\* C6: in a completed call in which some pick failed to parse or score, every
\* other pick of the event whose scoring succeeds has a Score row afterwards;
\* and a call whose event is completed and has results completes.
C6_FailureSkipsOnlyThatPick ==
    \A k \in DOMAIN log :
        /\ ~MustAbort(log[k]) => log[k].ok
        /\ (log[k].ok /\ \E n \in DOMAIN log[k].picks : ~Scorable(log[k], log[k].picks[n])) =>
              \A n \in DOMAIN log[k].picks :
                  Scorable(log[k], log[k].picks[n]) =>
                      ScoresOfPick(log[k].scores_after, log[k].picks[n].id) /= << >>

\* C7: the picks_scored a call returns is the number of picks whose Score it
\* created or updated.
C7_PicksScoredCountsWrites ==
    \A k \in DOMAIN log :
        log[k].ok => log[k].summary.picks_scored =
                        log[k].summary.scores_created + log[k].summary.scores_updated

\* C8: scoring the fixture of scripts/test_scoring.py returns total_points = 65
\* and leaves 8 Score rows whose points add up to 65.
C8_FixtureTotalIs65 ==
    \A k \in DOMAIN log :
        (log[k].ok /\ log[k].picks = create_test_picks
                   /\ log[k].results_by_type = _organize_results(create_test_results)) =>
            /\ log[k].summary.total_points = 65
            /\ Len(log[k].scores_after) = 8
            /\ SumPoints(log[k].scores_after) = 65

\* C10: when two calls for the same event overlapped and both completed, every
\* pick of the event that can be scored has exactly one Score row, carrying
\* the outcome computed from the results, and the scores_created of the two
\* calls add up to the number of Score rows of the event's picks.
C10_NoLostUpdate ==
    \A j \in DOMAIN log : \A k \in DOMAIN log :
        (Overlapped(j, k) /\ log[j].scores_before = << >>) =>
            /\ \A n \in DOMAIN log[k].picks :
                  LET pick == log[k].picks[n]
                      outcome == _score_pick(pick, log[k].results_by_type)
                      rows == ScoresOfPick(log[k].scores_after, pick.id)
                  IN ~outcome.raised =>
                        /\ Len(rows) = 1
                        /\ rows[1].points = outcome.val.points
                        /\ rows[1].margin = outcome.val.margin
                        /\ rows[1].exact_match = outcome.val.exact_match
            /\ log[j].summary.scores_created + log[k].summary.scores_created =
                  Len(SelectSeq(log[k].scores_after,
                                LAMBDA row : \E n \in DOMAIN log[k].picks :
                                                 log[k].picks[n].id = row.pick_id))

\* C12: a call for a completed event that has results but no pick completes:
\* it returns picks_scored = scores_created = scores_updated = total_points =
\* 0, and the step that commits it leaves the Score table as it was.
C12_NoPicksScoresTrivially ==
    /\ [](\A k \in DOMAIN log :
             (~MustAbort(log[k]) /\ log[k].picks = << >>) =>
                 /\ log[k].ok
                 /\ log[k].summary.picks_scored = 0
                 /\ log[k].summary.scores_created = 0
                 /\ log[k].summary.scores_updated = 0
                 /\ log[k].summary.total_points = 0)
    /\ [][\A r \in Slots :
             (run[r].pc = "loop" /\ run'[r].pc = "done" /\ run[r].picks = << >>) =>
                 scores' = scores]_vars

C12_Witness ==
    \E k \in DOMAIN log :
        /\ log[k].ok
        /\ log[k].n_results = 2
        /\ log[k].picks = << >>
        /\ log[k].summary.picks_scored = 0
        /\ \E n \in DOMAIN picks : picks[n].event_id /= log[k].event_id

(* ------------------------------------------- direct calls of the algorithms *)

\* Bounds of the arguments a direct call draws.
MaxPosition == 7

MaxLap == 8

MaxCount == 4

MaxResults == 2

Drivers == { "VER", "HAM", "LEC" }

\* all_results: any mapping of some of VER, HAM to finishing positions; LEC
\* never finished.
FinishingOrders == UNION { [S -> 1..MaxPosition] : S \in SUBSET { "VER", "HAM" } }

\* Lap times (thousandths).  Those ending in 000 or 500 are stored exactly and
\* lie 0.5 s, 1.0 s and 2.0 s apart; the others lie a few thousandths off these
\* distances, so that no difference falls on a threshold unless both times are
\* stored exactly.
LapTimeGrid == { 89000, 89001, 89499, 89500, 90000, 90002, 91000, 91003 }

AllLapTimes == UNION { [S -> LapTimeGrid] : S \in SUBSET { "VER", "HAM" } }

\* Timed values: an actual time, and predictions at offsets from a base time.
\* The offsets that are multiples of 0.125 s give exactly stored times and fall
\* on 0.5, 1, 2, 3 and 5 per cent of a base; the offsets next to them fall one
\* thousandth to either side; 0.009 and 0.011 lie either side of the 0.01 s
\* epsilon, which no difference of two stored times equals.
TimeBases == { 50000, 100000, 200000 }

TierOffsets == { 250, 500, 1000, 1500, 2000, 2500, 3000, 4000, 5000, 6000, 10000 }

TimeOffsets ==
    { 0, 9, 11, 125 } \cup TierOffsets \cup { d - 1 : d \in TierOffsets }
                      \cup { d + 1 : d \in TierOffsets }

PredictedTimes == { b + d : b \in TimeBases, d \in TimeOffsets }
                      \cup { b - d : b \in TimeBases, d \in TimeOffsets }

ActualTimes == TimeBases \cup { 0 }

\* Arguments of a direct call of the router: a pick of any category with one of
\* these values, and up to MaxResults Result rows of the pick's category or of
\* one other category.
PickValues == { "ham", "NOR", "90.5", "15", "true", "abc", DriverJson }

ActualValues == { "NOR", "90.8", "true", "false" }

BothMetadata ==
    [k \in { "finishing_order", "lap_times" } |->
        IF k = "finishing_order" THEN FixtureFinishingOrder ELSE FixtureLapTimes]

OtherCategory(prop_type) == IF prop_type = SAFETY_CAR THEN RACE_WINNER ELSE SAFETY_CAR

RowsFor(prop_type) ==
    { Result("e1", t, v, md) : t \in { prop_type, OtherCategory(prop_type) },
                               v \in ActualValues, md \in { EmptyDict, BothMetadata } }

ResultLists(prop_type) == UNION { [1..n -> RowsFor(prop_type)] : n \in 0..MaxResults }

(* -------------------------------------------------------- read-side views *)

\* Bound of the Score rows a read-side call sees.
MaxScores == 3

PointValues == { 0, 7, 10 }

\* Pick k of the table, of an event; rows are numbered in arrival order.
ScoredPick(k, event_id) == Pick(k, "u1", event_id, SAFETY_CAR, "true")

PickTables == { [k \in 1..MaxScores |-> ScoredPick(k, ev[k])] : ev \in [1..MaxScores -> EventIds] }

\* Score k belongs to pick k and was inserted k-th.
ScoreTables ==
    UNION { { [k \in 1..n |-> Score(k, k, "u1", ScoringResult(pts[k], None, pts[k] = 10, ""))] :
                pts \in [1..n -> PointValues] } : n \in 0..MaxScores }

ScoreSummary(score, pick) ==
    [score_id |-> score.id, user_id |-> score.user_id, pick_id |-> pick.id,
     prop_type |-> pick.prop_type, predicted_value |-> pick.prop_value,
     points |-> score.points, margin |-> score.margin,
     exact_match |-> score.exact_match, metadata |-> score.scoring_metadata]

PickOf(pick_rows, pick_id) ==
    pick_rows[CHOOSE j \in DOMAIN pick_rows : pick_rows[j].id = pick_id]

\* The lists the query of get_event_scores may return: the joined rows of the
\* event in any order that ORDER BY points DESC admits (the statement names no
\* second key, so rows of equal points come in an order the database picks),
\* cut at limit.
get_event_scores(score_rows, pick_rows, event_id, limit) ==
    LET joined == { k \in DOMAIN score_rows :
                      \E j \in DOMAIN pick_rows :
                          /\ pick_rows[j].id = score_rows[k].pick_id
                          /\ pick_rows[j].event_id = event_id }
        n == Cardinality(joined)
        orders == { f \in [1..n -> joined] :
                      /\ \A i, j \in 1..n : i /= j => f[i] /= f[j]
                      /\ \A i \in 1..(n - 1) :
                            score_rows[f[i]].points >= score_rows[f[i + 1]].points }
        m == IF n < limit THEN n ELSE limit
    IN { [i \in 1..m |-> ScoreSummary(score_rows[f[i]], PickOf(pick_rows, score_rows[f[i]].pick_id))] :
           f \in orders }

\* The columns and relationships the Score model declares.
ScoreAttributes ==
    { "id", "pick_id", "user_id", "points", "margin", "exact_match",
      "scoring_metadata", "created_at", "updated_at", "pick", "user" }

Users == { "u1", "u2" }

Seasons == { 2024, 2025 }

\* A Score row as the leaderboard query reads it: its user, its points and the
\* season of its event.
SeasonScoreRows == [user_id : Users, total_points : { 7, 10 }, season : Seasons]

SeasonScoreTables == UNION { [1..n -> SeasonScoreRows] : n \in 0..MaxScores }

DEFAULT_LIMIT == 50

RECURSIVE SumTotals(_, _, _)
SumTotals(score_rows, user_id, season) ==
    IF score_rows = << >> THEN 0
    ELSE (IF score_rows[1].user_id = user_id /\ score_rows[1].season = season
          THEN score_rows[1].total_points ELSE 0)
         + SumTotals(Tail(score_rows), user_id, season)

\* The outcomes of get_season_leaderboard. Building the query reads the class
\* attributes Score.total_points and Score.event, which the Score model does
\* not declare: the read raises AttributeError before any statement is sent.
\* With them declared, the query would group the season's rows per user, keep
\* the league's members, order by total descending and cut at limit.
get_season_leaderboard(score_rows, members, season, league_id, limit) ==
    IF ~({ "total_points", "event" } \subseteq ScoreAttributes)
    THEN { Raised("AttributeError") }
    ELSE LET grouped == { u \in Users :
                            /\ \E k \in DOMAIN score_rows :
                                  score_rows[k].user_id = u /\ score_rows[k].season = season
                            /\ league_id /= None => u \in members }
             n == Cardinality(grouped)
             total(u) == SumTotals(score_rows, u, season)
             orders == { f \in [1..n -> grouped] :
                           /\ \A i, j \in 1..n : i /= j => f[i] /= f[j]
                           /\ \A i \in 1..(n - 1) : total(f[i]) >= total(f[i + 1]) }
             m == IF n < limit THEN n ELSE limit
         IN { Returned([i \in 1..m |-> [user_id |-> f[i], total_points |-> total(f[i])]]) :
                f \in orders }

get_user_rank_in_league(score_rows, members, user_id, league_id, season) ==
    { IF leaderboard.raised
      THEN leaderboard
      ELSE LET ranks == { rank \in DOMAIN leaderboard.val :
                            leaderboard.val[rank].user_id = user_id }
           IN IF ranks = {} THEN Returned(None)
              ELSE Returned(Some(CHOOSE rank \in ranks : \A other \in ranks : rank <= other)) :
      leaderboard \in get_season_leaderboard(score_rows, members, season, Some(league_id),
                                             DEFAULT_LIMIT) }

\* The Score rows a pick may already have when the loop of score_event
\* reaches it: none, or one row from an earlier scoring.
StoredScores(pick) ==
    { << >> } \cup
    { << Score(1, pick.id, pick.user_id, ScoringResult(pts, margin, pts = 10, "stored")) >> :
        pts \in { 0, 10 }, margin \in { None, Some(0), Some(1000) } }

\* One pass of the loop body of score_event over a single pick, then the
\* commit: the Score table afterwards.
score_event_loop(pick, result_rows, score_rows) ==
    LET rn == [Idle EXCEPT !.pc = "loop", !.event_id = pick.event_id, !.serial = 2,
                           !.results_by_type = _organize_results(result_rows),
                           !.picks = << pick >>, !.scores_before = score_rows]
    IN View(score_rows, ScoreOnePick(rn, score_rows).tx)

Pending(fn, args) == [fn |-> fn, args |-> args, out |-> << >>]

AlgInit ==
    /\ events = EmptyDict
    /\ results = << >>
    /\ picks = << >>
    /\ scores = << >>
    /\ audits = << >>
    /\ run = [r \in Slots |-> Idle]
    /\ started = 0
    /\ log = << >>
    /\ now = 0
    /\ schedule = EmptyDict
    /\ worker = WorkerIdle
    /\ \/ \E p \in Drivers, a \in Drivers, o \in FinishingOrders, t \in PropType :
             call = Pending("score_driver_position", << p, a, o, t >>)
       \/ \E p \in Drivers, a \in Drivers, o \in AllLapTimes :
             call = Pending("score_fastest_lap", << p, a, o >>)
       \/ \E p \in PredictedTimes, a \in ActualTimes :
             call = Pending("score_lap_time", << p, a >>)
       \/ \E p \in 1..MaxLap, a \in 1..MaxLap :
             call = Pending("score_pit_window", << p, a >>)
       \/ \E p \in BOOLEAN, a \in BOOLEAN :
             call = Pending("score_boolean_prediction", << p, a >>)
       \/ \E p \in 0..MaxCount, a \in 0..MaxCount :
             call = Pending("score_count_prediction", << p, a >>)
       \/ \E t \in PropType, v \in PickValues :
             \E rs \in ResultLists(t) :
                call = Pending("_score_pick", << Pick("p1", "u1", "e1", t, v), rs >>)
       \/ \E v \in ParserTexts : call = Pending("parse_driver_code", << v >>)
       \/ \E t \in { SAFETY_CAR, FASTEST_LAP, RACE_WINNER }, v \in { "true", "HAM", "NOR", "abc" } :
             \E rs \in { r \in ResultLists(t) : Len(r) = 1 } :
                \E sc \in StoredScores(Pick("p1", "u1", "e1", t, v)) :
                   call = Pending("score_event_loop", << Pick("p1", "u1", "e1", t, v), rs, sc >>)
       \/ \E sc \in SeasonScoreTables, members \in SUBSET Users, u \in Users :
             call = Pending("get_user_rank_in_league", << sc, members, u, "l1", 2025 >>)
       \/ \E sc \in ScoreTables, pk \in PickTables, e \in EventIds, limit \in 1..MaxScores :
             call = Pending("get_event_scores", << sc, pk, e, limit >>)
       \/ \E v \in ParserTexts : call = Pending("parse_boolean_value", << v >>)

Tables == << events, results, picks, scores, audits, run, started, log, now, schedule, worker >>

Return(outcome) == call' = [call EXCEPT !.out = << outcome >>]

CallScoreDriverPosition ==
    /\ call.fn = "score_driver_position" /\ call.out = << >>
    /\ Return(score_driver_position(call.args[1], call.args[2], call.args[3], call.args[4]))
    /\ UNCHANGED Tables

CallScoreFastestLap ==
    /\ call.fn = "score_fastest_lap" /\ call.out = << >>
    /\ Return(score_fastest_lap(call.args[1], call.args[2], call.args[3]))
    /\ UNCHANGED Tables

CallScoreLapTime ==
    /\ call.fn = "score_lap_time" /\ call.out = << >>
    /\ Return(score_lap_time(call.args[1], call.args[2]))
    /\ UNCHANGED Tables

CallScorePitWindow ==
    /\ call.fn = "score_pit_window" /\ call.out = << >>
    /\ Return(score_pit_window(call.args[1], call.args[2]))
    /\ UNCHANGED Tables

CallScoreBooleanPrediction ==
    /\ call.fn = "score_boolean_prediction" /\ call.out = << >>
    /\ Return(score_boolean_prediction(call.args[1], call.args[2]))
    /\ UNCHANGED Tables

CallScoreCountPrediction ==
    /\ call.fn = "score_count_prediction" /\ call.out = << >>
    /\ Return(score_count_prediction(call.args[1], call.args[2]))
    /\ UNCHANGED Tables

\* The router on the rows as score_event hands them over: organised by type.
CallScorePick ==
    /\ call.fn = "_score_pick" /\ call.out = << >>
    /\ Return(_score_pick(call.args[1], _organize_results(call.args[2])))
    /\ UNCHANGED Tables

CallParseDriverCode ==
    /\ call.fn = "parse_driver_code" /\ call.out = << >>
    /\ Return(parse_driver_code(call.args[1]))
    /\ UNCHANGED Tables

CallParseBooleanValue ==
    /\ call.fn = "parse_boolean_value" /\ call.out = << >>
    /\ Return(parse_boolean_value(call.args[1]))
    /\ UNCHANGED Tables

CallGetEventScores ==
    /\ call.fn = "get_event_scores" /\ call.out = << >>
    /\ \E rows \in get_event_scores(call.args[1], call.args[2], call.args[3], call.args[4]) :
          Return(Returned(rows))
    /\ UNCHANGED Tables

CallGetUserRankInLeague ==
    /\ call.fn = "get_user_rank_in_league" /\ call.out = << >>
    /\ \E outcome \in get_user_rank_in_league(call.args[1], call.args[2], call.args[3],
                                              call.args[4], call.args[5]) :
          Return(outcome)
    /\ UNCHANGED Tables

CallScoreEventLoop ==
    /\ call.fn = "score_event_loop" /\ call.out = << >>
    /\ Return(Returned(score_event_loop(call.args[1], call.args[2], call.args[3])))
    /\ UNCHANGED Tables

AlgNext ==
    \/ CallScoreDriverPosition
    \/ CallScoreFastestLap
    \/ CallScoreLapTime
    \/ CallScorePitWindow
    \/ CallScoreBooleanPrediction
    \/ CallScoreCountPrediction
    \/ CallScorePick
    \/ CallParseDriverCode
    \/ CallParseBooleanValue
    \/ CallGetEventScores
    \/ CallGetUserRankInLeague
    \/ CallScoreEventLoop

AlgSpec == AlgInit /\ [][AlgNext]_vars

(* ------------------------------------------- properties of the direct calls *)

Returns(fn) == call.fn = fn /\ call.out /= << >>

\* The Result rows of a list that belong to a category, in order.
RowsOfCategory(rows, prop_type) == SelectSeq(rows, LAMBDA row : row.prop_type = prop_type)

NoDataOutcome ==
    ScoringResult(0, None, FALSE, "error: No results available for this prediction type")

\* C11: a pick whose category has no Result row among the event's results is
\* given 0 points, no margin, no exact match and the metadata saying that no
\* results are available, whatever its value and whatever other rows exist.
C11_NoResultScoresZero ==
    Returns("_score_pick") =>
        (RowsOfCategory(call.args[2], call.args[1].prop_type) = << >> =>
            /\ ~call.out[1].raised
            /\ call.out[1].val.points = 0
            /\ call.out[1].val.margin = None
            /\ call.out[1].val = NoDataOutcome)

C11_Witness ==
    /\ Returns("_score_pick")
    /\ call.args[1].prop_type = LAP_TIME_PREDICTION
    /\ call.args[1].prop_value = "90.5"
    /\ Len(call.args[2]) = 2
    /\ RowsOfCategory(call.args[2], LAP_TIME_PREDICTION) = << >>
    /\ call.out[1].val.points = 0
    /\ call.out[1].val.margin = None

TimedCategories == { LAP_TIME_PREDICTION, SECTOR_TIME_PREDICTION }

\* C13: an outcome of the position, fastest-lap, pit-window, boolean or count
\* algorithm that is flagged exact_match has margin 0, whether the algorithm
\* is called directly or reached through the router by a pick of one of its
\* categories.
C13_ExactMatchHasZeroMargin ==
    /\ (call.out /= << >> /\ call.fn \in { "score_driver_position", "score_fastest_lap",
                                           "score_pit_window", "score_boolean_prediction",
                                           "score_count_prediction" }) =>
          (call.out[1].exact_match => call.out[1].margin = Some(0))
    /\ (Returns("_score_pick") /\ call.args[1].prop_type \notin TimedCategories
                               /\ ~call.out[1].raised) =>
          (call.out[1].val.exact_match => call.out[1].val.margin = Some(0))

C13_Witness ==
    /\ Returns("score_boolean_prediction")
    /\ call.args = << FALSE, FALSE >>
    /\ call.out[1].exact_match
    /\ call.out[1].margin = Some(0)

\* The fixed tier set of each algorithm family.
PositionTiers == { 0, 2, 4, 7, 10 }

TimedTiers == { 0, 2, 4, 6, 8, 10 }

PitWindowTiers == { 0, 1, 3, 5, 7, 10 }

BooleanTiers == { 0, 10 }

CountTiers == { 0, 3, 6, 10 }

TiersOfFunction(fn) ==
    CASE fn = "score_driver_position" -> PositionTiers
      [] fn = "score_fastest_lap" -> PositionTiers
      [] fn = "score_lap_time" -> TimedTiers
      [] fn = "score_pit_window" -> PitWindowTiers
      [] fn = "score_boolean_prediction" -> BooleanTiers
      [] fn = "score_count_prediction" -> CountTiers

TiersOfCategory(prop_type) ==
    CASE prop_type \in { RACE_WINNER, PODIUM_P1, PODIUM_P2, PODIUM_P3, POLE_POSITION,
                         FIRST_RETIREMENT, FASTEST_LAP } -> PositionTiers
      [] prop_type \in TimedCategories -> TimedTiers
      [] prop_type \in { PIT_WINDOW_START, PIT_WINDOW_END } -> PitWindowTiers
      [] prop_type = SAFETY_CAR -> BooleanTiers
      [] prop_type = TOTAL_PIT_STOPS -> CountTiers

\* The outcome a finished call returned, if it returned one: score_lap_time and
\* the router may raise instead.
Outcome ==
    IF call.fn \in { "score_lap_time", "_score_pick" } THEN call.out[1].val ELSE call.out[1]

HasOutcome ==
    /\ call.out /= << >>
    /\ call.fn \in { "score_driver_position", "score_fastest_lap", "score_lap_time",
                     "score_pit_window", "score_boolean_prediction",
                     "score_count_prediction", "_score_pick" }
    /\ call.fn \in { "score_lap_time", "_score_pick" } => ~call.out[1].raised

\* C14: the points of every outcome are non-negative and belong to the tier
\* set of the algorithm that produced it: by function for a direct call, by the
\* pick's category for a call of the router.
C14_PointsInTierSet ==
    HasOutcome =>
        /\ Outcome.points >= 0
        /\ Outcome.points \in (IF call.fn = "_score_pick"
                               THEN TiersOfCategory(call.args[1].prop_type)
                               ELSE TiersOfFunction(call.fn))

C14_Witness ==
    /\ Returns("score_count_prediction")
    /\ call.args = << 0, 4 >>
    /\ Outcome.points = 0

\* The position a category expects: 2 for P2, 3 for P3, 1 for every other one.
ExpectedPosition(prop_type) ==
    IF prop_type = PODIUM_P2 THEN 2 ELSE IF prop_type = PODIUM_P3 THEN 3 ELSE 1

\* C15: score_driver_position returns 10 points, margin 0, exact_match for the
\* actual driver; 0 points, margin 20, result "dnf" for a driver absent from
\* the finishing order; and otherwise, with diff the distance between the
\* predicted driver's finishing position and the category's expected position,
\* 7, 4, 2 points for diff 1, 2, 3 and 0 for diff >= 4, margin diff, no exact
\* match.
C15_DriverPositionReference ==
    Returns("score_driver_position") =>
        LET predicted == call.args[1]
            actual == call.args[2]
            order == call.args[3]
            out == call.out[1]
        IN IF predicted = actual
           THEN out.points = 10 /\ out.margin = Some(0) /\ out.exact_match
           ELSE IF ~(\E d \in DOMAIN order : d = predicted)
           THEN /\ out.points = 0 /\ out.margin = Some(20000)
                /\ ~out.exact_match /\ out.metadata = "dnf"
           ELSE LET diff == Abs(order[predicted] - ExpectedPosition(call.args[4]))
                IN /\ diff = 1 => out.points = 7
                   /\ diff = 2 => out.points = 4
                   /\ diff = 3 => out.points = 2
                   /\ diff >= 4 => out.points = 0
                   /\ out.margin = Some(diff * 1000)
                   /\ ~out.exact_match

C15_Witness ==
    /\ Returns("score_driver_position")
    /\ call.args[1] = "HAM" /\ call.args[2] = "VER"
    /\ call.args[4] = PODIUM_P3
    /\ "HAM" \in DOMAIN call.args[3] /\ call.args[3]["HAM"] = 7
    /\ call.out[1].points = 0
    /\ call.out[1].margin = Some(4000)

Timed(times, driver) == \E d \in DOMAIN times : d = driver

\* C16: for a driver other than the actual one, score_fastest_lap awards by the
\* difference d of the two drivers' lap times: 7 for d < 0.5 s, 4 for
\* 0.5 <= d < 1.0, 2 for 1.0 <= d < 2.0 and 0 for d >= 2.0, with margin d; when
\* either driver has no lap time it returns 0 points, no margin and "no_data".
C16_FastestLapTiers ==
    (Returns("score_fastest_lap") /\ call.args[1] /= call.args[2]) =>
        LET times == call.args[3]
            out == call.out[1]
        IN IF Timed(times, call.args[1]) /\ Timed(times, call.args[2])
           THEN LET a == times[call.args[1]]
                    b == times[call.args[2]]
                    d == IF a >= b THEN a - b ELSE b - a
                IN /\ d < 500 => out.points = 7
                   /\ (500 <= d /\ d < 1000) => out.points = 4
                   /\ (1000 <= d /\ d < 2000) => out.points = 2
                   /\ 2000 <= d => out.points = 0
                   /\ out.margin = Some(d)
           ELSE out.points = 0 /\ out.margin = None /\ out.metadata = "no_data"

C16_Witness ==
    /\ Returns("score_fastest_lap")
    /\ call.args[1] = "HAM" /\ call.args[2] = "VER"
    /\ Timed(call.args[3], "HAM") /\ Timed(call.args[3], "VER")
    /\ call.args[3]["HAM"] = 89500 /\ call.args[3]["VER"] = 89000
    /\ call.out[1].points = 4
    /\ call.out[1].margin = Some(500)

\* C17: for a positive actual time, score_lap_time awards by the relative
\* error p = |predicted - actual| / actual * 100: 10 for p < 0.5, 8 for
\* 0.5 <= p < 1, 6 for 1 <= p < 2, 4 for 2 <= p < 3, 2 for 3 <= p < 5 and 0 for
\* p >= 5; exact_match holds exactly when |predicted - actual| < 0.01 s,
\* whatever the tier; the margin is the absolute difference.  (p < q per cent
\* is written 100 * d < q * actual.)
C17_LapTimeTiers ==
    (Returns("score_lap_time") /\ call.args[2] > 0) =>
        LET predicted == call.args[1]
            actual == call.args[2]
            d == IF predicted >= actual THEN predicted - actual ELSE actual - predicted
            out == call.out[1]
        IN /\ ~out.raised
           /\ 200 * d < actual => out.val.points = 10
           /\ (200 * d >= actual /\ 100 * d < actual) => out.val.points = 8
           /\ (100 * d >= actual /\ 100 * d < 2 * actual) => out.val.points = 6
           /\ (100 * d >= 2 * actual /\ 100 * d < 3 * actual) => out.val.points = 4
           /\ (100 * d >= 3 * actual /\ 100 * d < 5 * actual) => out.val.points = 2
           /\ 100 * d >= 5 * actual => out.val.points = 0
           /\ out.val.exact_match <=> d < 10
           /\ out.val.margin = Some(d)

C17_Witness ==
    /\ Returns("score_lap_time")
    /\ call.args = << 100500, 100000 >>
    /\ call.out[1].val.points = 8
    /\ ~call.out[1].val.exact_match
    /\ call.out[1].val.margin = Some(500)

\* C18: score_pit_window maps the lap difference d to 10 points for d = 0, 7
\* for d = 1, 5 for d = 2, 3 for d = 3, 1 for d = 4 or 5 and 0 for d > 5; its
\* margin is d and exact_match holds only for d = 0.
C18_PitWindowTiers ==
    Returns("score_pit_window") =>
        \E d \in 0..MaxLap :
            /\ call.args[1] - call.args[2] \in { d, -d }
            /\ call.out[1].points = (CASE d = 0 -> 10 [] d = 1 -> 7 [] d = 2 -> 5
                                       [] d = 3 -> 3 [] d \in { 4, 5 } -> 1 [] OTHER -> 0)
            /\ call.out[1].margin = Some(d * 1000)
            /\ call.out[1].exact_match <=> d = 0

C18_Witness ==
    /\ Returns("score_pit_window")
    /\ call.args = << 1, 6 >>
    /\ call.out[1].points = 1
    /\ call.out[1].margin = Some(5000)
    /\ ~call.out[1].exact_match

\* C19: score_boolean_prediction returns 10 points, margin 0 and exact_match
\* when the prediction equals the outcome (both true or both false), and 0
\* points, margin 1 and no exact match when they differ.
C19_BooleanScoring ==
    Returns("score_boolean_prediction") =>
        IF call.args[1] <=> call.args[2]
        THEN /\ call.out[1].points = 10
             /\ call.out[1].margin = Some(0)
             /\ call.out[1].exact_match
        ELSE /\ call.out[1].points = 0
             /\ call.out[1].margin = Some(1000)
             /\ ~call.out[1].exact_match

C19_Witness ==
    /\ Returns("score_boolean_prediction")
    /\ call.args = << TRUE, FALSE >>
    /\ call.out[1].points = 0
    /\ call.out[1].margin = Some(1000)

\* The algorithm family the claim assigns to a category, applied to a pick and
\* one Result row.
FamilyOutcome(pick, row) ==
    CASE pick.prop_type \in { RACE_WINNER, PODIUM_P1, PODIUM_P2, PODIUM_P3,
                              POLE_POSITION, FIRST_RETIREMENT } ->
             _score_driver_position(pick, << row >>)
      [] pick.prop_type = FASTEST_LAP -> _score_fastest_lap(pick, << row >>)
      [] pick.prop_type \in TimedCategories -> _score_time_prediction(pick, << row >>)
      [] pick.prop_type \in { PIT_WINDOW_START, PIT_WINDOW_END } ->
             _score_pit_window(pick, << row >>)
      [] pick.prop_type = SAFETY_CAR -> _score_boolean(pick, << row >>)
      [] pick.prop_type = TOTAL_PIT_STOPS -> _score_count(pick, << row >>)
      [] OTHER -> Returned(ScoringResult(0, None, FALSE, "error: Unsupported prop type"))

\* C20: what the router returns for a pick (an outcome or an exception) is
\* what the algorithm family of the pick's category returns for the pick and
\* the first Result row of that category alone; rows of other categories and
\* later rows of the same category make no difference.
C20_FirstRowOfOwnCategory ==
    Returns("_score_pick") =>
        LET pick == call.args[1]
            own == RowsOfCategory(call.args[2], pick.prop_type)
            first == IF own = << >> THEN << >> ELSE << own[1] >>
        IN /\ own /= << >> => call.out[1] = FamilyOutcome(pick, own[1])
           /\ call.out[1] = _score_pick(pick, _organize_results(first))

C20_Witness ==
    /\ Returns("_score_pick")
    /\ call.args[1].prop_type = SAFETY_CAR
    /\ call.args[1].prop_value = "true"
    /\ Len(call.args[2]) = 2
    /\ call.args[2][1].prop_type = SAFETY_CAR /\ call.args[2][1].actual_value = "true"
    /\ call.args[2][2].prop_type = SAFETY_CAR /\ call.args[2][2].actual_value = "false"
    /\ call.out[1].val.points = 10

\* Whether a stored text decodes to a JSON object.
IsJsonObject(value) == JsonLoads(value).ok /\ JsonLoads(value).data.type = "dict"

TrimUpper(s) == PyStrip(PyUpper(s))

\* C21: parse_driver_code never fails; for a JSON object it returns the trimmed
\* upper-cased driver_code field (empty string if missing), for any other text
\* the trimmed upper-cased text itself.
C21_ParseDriverCodeTrimsNeverFails ==
    Returns("parse_driver_code") =>
        LET value == call.args[1]
            obj == JsonLoads(value).data.obj
        IN /\ ~call.out[1].raised
           /\ call.out[1].val =
                 IF IsJsonObject(value)
                 THEN IF "driver_code" \in DOMAIN obj
                      THEN TrimUpper(obj["driver_code"].s)
                      ELSE ""
                 ELSE TrimUpper(value)

\* C22: parse_boolean_value on text that is not a JSON object never fails and
\* returns true exactly when the text, lower-cased, is "true", "yes" or "1".
C22_ParseBooleanTruthySet ==
    (Returns("parse_boolean_value") /\ ~IsJsonObject(call.args[1])) =>
        /\ ~call.out[1].raised
        /\ call.out[1].val = (PyLower(call.args[1]) \in { "true", "yes", "1" })

\* C26: among non-exact position picks of one category whose drivers both
\* finished, the pick with the smaller distance between finishing position and
\* expected position never receives fewer points than the other.
C26_PositionPointsNonIncreasing ==
    Returns("score_driver_position") =>
        LET predicted_driver == call.args[1]
            actual_driver == call.args[2]
            all_results == call.args[3]
            prop_type == call.args[4]
            expected == ExpectedPosition(prop_type)
        IN (predicted_driver /= actual_driver /\ predicted_driver \in DOMAIN all_results) =>
              \A other \in DOMAIN all_results \ { actual_driver } :
                  Abs(all_results[other] - expected) <= Abs(all_results[predicted_driver] - expected) =>
                      score_driver_position(other, actual_driver, all_results, prop_type).points
                          >= call.out[1].points

\* C23: get_event_scores returns at most limit summaries, each of a Score whose
\* Pick belongs to the event, with points non-increasing and Scores of equal
\* points in insertion order.
C23_EventScoresOrdered ==
    Returns("get_event_scores") =>
        LET rows == call.out[1].val
            pick_rows == call.args[2]
            event_id == call.args[3]
            limit == call.args[4]
        IN /\ Len(rows) <= limit
           /\ \A i \in DOMAIN rows : PickOf(pick_rows, rows[i].pick_id).event_id = event_id
           /\ \A i, j \in DOMAIN rows :
                 i < j => /\ rows[i].points >= rows[j].points
                          /\ rows[i].points = rows[j].points => rows[i].score_id < rows[j].score_id

\* C24: for a member of the league with at least one Score in the season,
\* get_user_rank_in_league returns the member's 1-based position among the
\* league members' season totals sorted in descending order: above every rank
\* taken by a larger total, and within those of totals at least as large.
C24_RankIsPositionInLeague ==
    Returns("get_user_rank_in_league") =>
        LET score_rows == call.args[1]
            members == call.args[2]
            user_id == call.args[3]
            season == call.args[5]
            scored == { u \in members : \E k \in DOMAIN score_rows :
                            score_rows[k].user_id = u /\ score_rows[k].season = season }
            total(u) == SumTotals(score_rows, u, season)
            above == { u \in scored : total(u) > total(user_id) }
            notBelow == { u \in scored : total(u) >= total(user_id) }
        IN user_id \in scored =>
              /\ ~call.out[1].raised
              /\ call.out[1].val /= None
              /\ call.out[1].val[1] > Cardinality(above)
              /\ call.out[1].val[1] <= Cardinality(notBelow)

\* C25: when score_event re-scores a pick that already has a Score and the
\* scoring of the pick succeeds, the stored Score afterwards holds the points,
\* margin, exact_match and metadata of the newly computed outcome, an absent
\* margin and 0 points included.
C25_RescoreOverwritesAllFields ==
    Returns("score_event_loop") =>
        LET pick == call.args[1]
            outcome == _score_pick(pick, _organize_results(call.args[2]))
            before == ScoresOfPick(call.args[3], pick.id)
            after == ScoresOfPick(call.out[1].val, pick.id)
        IN (before /= << >> /\ ~outcome.raised) =>
              /\ Len(after) = 1
              /\ after[1].points = outcome.val.points
              /\ after[1].margin = outcome.val.margin
              /\ after[1].exact_match = outcome.val.exact_match
              /\ after[1].scoring_metadata = outcome.val.metadata

(* ------------------------------------ the worker, the clock and the API *)

\* Bound of the clock.
MaxTime == 3

SCHEDULED == "scheduled"

LIVE == "live"

CANCELLED == "cancelled"

\* poll_for_session_data waits 30 minutes after end_time: one tick of the clock.
IngestDelay == 1

SystemEvents == { "e1", "e2" }

SystemUsers == { "u1", "u2" }

\* A pick's id: the API keeps one pick per user, event and category.
PickId(user_id, event_id, prop_type) == << user_id, event_id, prop_type >>

\* The result dictionaries extract_race_results / extract_qualifying_results
\* return: classification position (None for an unclassified driver) and name.
ResultData(position, driver_name) == [position |-> position, driver_name |-> driver_name]

FetchedResults ==
    { << >>,
      << ResultData(Some(1), "Max Verstappen"), ResultData(Some(2), "Lewis Hamilton"),
         ResultData(Some(3), "Charles Leclerc"), ResultData(Some(4), "Lando Norris") >>,
      << ResultData(Some(1), "Lewis Hamilton"), ResultData(Some(2), "Max Verstappen"),
         ResultData(None, "Charles Leclerc") >> }

\* get_session_data returns None when the session cannot be loaded.
SessionData == { None } \cup { Some(d) : d \in FetchedResults }

session_type_map(session_type) ==
    CASE session_type = "race" -> "R"
      [] session_type = "qualifying" -> "Q"
      [] session_type = "sprint" -> "S"
      [] OTHER -> ""

PropTypeOfPosition(result_type, position) ==
    CASE result_type = "race" /\ position = Some(1) -> Some(RACE_WINNER)
      [] result_type = "race" /\ position = Some(2) -> Some(PODIUM_P2)
      [] result_type = "race" /\ position = Some(3) -> Some(PODIUM_P3)
      [] result_type = "qualifying" /\ position = Some(1) -> Some(POLE_POSITION)
      [] OTHER -> None

RECURSIVE transform_results_to_db(_, _, _)
transform_results_to_db(results_data, event_id, result_type) ==
    IF results_data = << >> THEN << >>
    ELSE LET result_data == Head(results_data)
             prop_type_str == PropTypeOfPosition(result_type, result_data.position)
             rest == transform_results_to_db(Tail(results_data), event_id, result_type)
         IN IF prop_type_str = None THEN rest
            ELSE << Result(event_id, prop_type_str[1], result_data.driver_name,
                           [k \in { "position" } |-> result_data.position]) >> \o rest

\* The backend's routes, as app.include_router mounts them: each router under
\* its own prefix, with no prefix added by the application.
Routes ==
    { [method |-> "POST", path |-> << "scores" >> \o << "trigger" >>,
       handler |-> "trigger_scoring", auth |-> TRUE],
      [method |-> "POST", path |-> << "picks" >>, handler |-> "create_pick", auth |-> TRUE],
      [method |-> "PUT", path |-> << "picks", "{pick_id}" >>, handler |-> "update_pick", auth |-> TRUE],
      [method |-> "DELETE", path |-> << "picks", "{pick_id}" >>, handler |-> "delete_pick", auth |-> TRUE] }

\* The request _trigger_scoring sends: no Authorization header.
TriggerRequest ==
    [method |-> "POST", path |-> << "api", "scores", "trigger" >>, credentials |-> FALSE]

\* Routing of a request: 404 when no route matches, 403 when the route's
\* HTTPBearer dependency finds no credentials, else the handler.
Route(request) ==
    LET matching == { rt \in Routes : rt.method = request.method /\ rt.path = request.path }
    IN IF matching = {} THEN [handler |-> "", status_code |-> 404]
       ELSE LET rt == CHOOSE m \in matching : TRUE
            IN IF rt.auth /\ ~request.credentials
               THEN [handler |-> "", status_code |-> 403]
               ELSE [handler |-> rt.handler, status_code |-> 0]

\* One iteration of the loop on the rows the session sees so far.
ScoreNextPick(rn, score_rows) == ScoreOnePick(rn, View(score_rows, rn.tx))

\* The loop of lines 77-111 run over all the picks: the run after n picks.
ScoreAllPicks(rn, score_rows) ==
    LET after[n \in 0 .. Len(rn.picks)] ==
            IF n = 0 THEN rn ELSE ScoreNextPick(after[n - 1], score_rows)
    IN after[Len(rn.picks)]

\* Lines 113-130: the audit row and the commit of a run that reached the end.
ScoredEvent(rn, score_rows) ==
    [status_code |-> 200, scores |-> View(score_rows, rn.tx),
     audit |-> << _create_audit_log(rn.event_id, Len(rn.picks), rn.scores_created,
                                    rn.scores_updated, rn.total_points) >>]

\* score_event run from its first line to its return, as one request sees it.
score_event(event_id, event_rows, result_rows, pick_rows, score_rows, serial) ==
    LET found == event_id \in DOMAIN event_rows
        error == VerifyEvent(found, IF found THEN event_rows[event_id] ELSE "")
        rows == SelectSeq(result_rows, LAMBDA row : row.event_id = event_id)
        rn == [Idle EXCEPT !.pc = "loop", !.event_id = event_id, !.serial = serial,
                           !.results_by_type = _organize_results(rows),
                           !.picks = SelectSeq(pick_rows, LAMBDA row : row.event_id = event_id)]
    IN IF error /= "" \/ rows = << >>
       THEN [status_code |-> 400, scores |-> score_rows, audit |-> << >>]
       ELSE ScoredEvent(ScoreAllPicks(rn, score_rows), score_rows)

SystemInit ==
    /\ \E st1 \in { SCHEDULED, CANCELLED }, st2 \in { COMPLETED, CANCELLED } :
          events = [e \in SystemEvents |-> IF e = "e1" THEN st1 ELSE st2]
    /\ \E kind \in { "race", "qualifying", "sprint" } :
          schedule = [e \in SystemEvents |->
                        IF e = "e1"
                        THEN [start_time |-> 1, end_time |-> 2, session_type |-> kind]
                        ELSE [start_time |-> 0, end_time |-> 0, session_type |-> "race"]]
    /\ results = << Result("e2", RACE_WINNER, "Max Verstappen", [k \in { "position" } |-> Some(1)]) >>
    /\ picks = << Pick(PickId("u1", "e2", RACE_WINNER), "u1", "e2", RACE_WINNER, "VER") >>
    /\ scores = << >>
    /\ audits = << >>
    /\ run = [r \in Slots |-> Idle]
    /\ started = 0
    /\ log = << >>
    /\ call = NoCall
    /\ now = 0
    /\ worker = WorkerIdle

\* Time passes.
Tick ==
    /\ now < MaxTime
    /\ now' = now + 1
    /\ UNCHANGED << events, results, picks, scores, audits, run, started, log, call,
                    schedule, worker >>

\* One run of the periodic job: scheduled events inside their window go live,
\* then live events past their end are completed, in one transaction.
update_event_statuses ==
    /\ LET events_to_live == { e \in DOMAIN events :
                                 /\ events[e] = SCHEDULED
                                 /\ schedule[e].start_time <= now
                                 /\ schedule[e].end_time > now }
           live == [e \in DOMAIN events |-> IF e \in events_to_live THEN LIVE ELSE events[e]]
           events_to_completed == { e \in DOMAIN events :
                                      live[e] = LIVE /\ schedule[e].end_time <= now }
       IN events' = [e \in DOMAIN events |->
                        IF e \in events_to_completed THEN COMPLETED ELSE live[e]]
    /\ UNCHANGED << results, picks, scores, audits, run, started, log, call,
                    now, schedule, worker >>

\* The store step: the event's Result rows are deleted and the new ones added.
ingest_session_results_appending(event_id, result_rows, new_rows) == result_rows \o new_rows

ingest_session_results(event_id, result_rows, new_rows) ==
    SelectSeq(result_rows, LAMBDA row : row.event_id /= event_id) \o new_rows

\* poll_completed_events picks a completed event whose end_time has passed;
\* poll_for_session_data waits for the delay and calls ingest_session_results,
\* which fetches, transforms and stores the results, completes the event and
\* commits, or returns False when there is nothing to store.
IngestSessionResults(e, session_data) ==
    /\ worker.pc = "idle"
    /\ e \in DOMAIN events /\ events[e] = COMPLETED
    /\ schedule[e].end_time + IngestDelay <= now
    /\ LET code == session_type_map(schedule[e].session_type)
           result_type == IF code = "R" THEN "race" ELSE "qualifying"
           failed == [worker EXCEPT !.pc = "done", !.event_id = e, !.returned = Some(FALSE)]
       IN IF session_data = None \/ code \notin { "R", "Q" }
          THEN worker' = failed /\ UNCHANGED << events, results >>
          ELSE IF session_data[1] = << >>
          THEN worker' = [failed EXCEPT !.results_data = session_data[1]]
               /\ UNCHANGED << events, results >>
          ELSE /\ results' = ingest_session_results(e, results,
                                 transform_results_to_db(session_data[1], e, result_type))
               /\ events' = [events EXCEPT ![e] = COMPLETED]
               /\ worker' = [worker EXCEPT !.pc = "trigger", !.event_id = e,
                                           !.results_data = session_data[1]]
    /\ UNCHANGED << picks, scores, audits, run, started, log, call, now, schedule >>

\* The endpoint has run score_event for the worker's request and answered.
Served(outcome) ==
    /\ scores' = outcome.scores
    /\ audits' = audits \o outcome.audit
    /\ started' = started + 1
    /\ worker' = [worker EXCEPT !.pc = "done", !.returned = Some(TRUE),
                                !.status_code = outcome.status_code]

\* _trigger_scoring posts to the backend; whatever the response, or if the
\* call raises, ingest_session_results returns True.
TriggerScoring ==
    /\ worker.pc = "trigger"
    /\ IF Route(TriggerRequest).handler = "trigger_scoring"
       THEN Served(score_event(worker.event_id, events, results, picks, scores, started + 1))
       ELSE /\ worker' = [worker EXCEPT !.pc = "done", !.returned = Some(TRUE),
                                        !.status_code = Route(TriggerRequest).status_code]
            /\ UNCHANGED << scores, audits, started >>
    /\ UNCHANGED << events, results, picks, run, log, call, now, schedule >>

\* The call has returned to the poller.
WorkerReturn ==
    /\ worker.pc = "done"
    /\ worker' = WorkerIdle
    /\ UNCHANGED << events, results, picks, scores, audits, run, started, log, call,
                    now, schedule >>

\* PropType[name]: the member of that name, or KeyError.
PropTypeByName(name) ==
    LET members == { t \in PropType : PyUpper(t) = name }
    IN IF members = {} THEN Raised("KeyError") ELSE Returned(CHOOSE t \in members : TRUE)

\* The commit of score_event and the response of the endpoint.
Handled(e, outcome) ==
    /\ scores' = outcome.scores
    /\ audits' = audits \o outcome.audit
    /\ call' = [fn |-> "trigger_scoring", args |-> << e, now >>,
                out |-> << outcome.status_code >>]

\* trigger_scoring called with a valid bearer token: score_event runs and its
\* ValueError becomes a 400.
trigger_scoring(e) ==
    /\ started < MaxRuns
    /\ Handled(e, score_event(e, events, results, picks, scores, started + 1))
    /\ started' = started + 1
    /\ UNCHANGED << events, results, picks, run, log, now, schedule, worker >>

PickEvents == SystemEvents \cup { "e9" }

PropTypeTexts == { "race_winner", "bogus" }

PropValues == { "VER", "HAM" }

Started(event_id) == schedule[event_id].start_time <= now

\* The response of a picks endpoint and the Pick table it leaves.
Response(status_code, pick_rows) == [status_code |-> status_code, picks |-> pick_rows]

create_pick_response(user_id, event_id, prop_type, prop_value) ==
    LET prop_type_enum == PropTypeByName(PyUpper(prop_type))
    IN IF event_id \notin DOMAIN events THEN Response(404, picks)
       ELSE IF Started(event_id) THEN Response(400, picks)
       ELSE IF prop_type_enum.raised THEN Response(400, picks)
       ELSE IF \E k \in DOMAIN picks : /\ picks[k].user_id = user_id
                                       /\ picks[k].event_id = event_id
                                       /\ picks[k].prop_type = prop_type_enum.val
       THEN Response(400, picks)
       ELSE Response(201, Append(picks, Pick(PickId(user_id, event_id, prop_type_enum.val),
                                             user_id, event_id, prop_type_enum.val, prop_value)))

update_pick_unlocked(user_id, pick_id, prop_value) ==
    LET found == { k \in DOMAIN picks : picks[k].id = pick_id /\ picks[k].user_id = user_id }
        k == CHOOSE j \in found : TRUE
    IN IF found = {} THEN Response(404, picks)
       ELSE IF picks[k].event_id \notin DOMAIN events THEN Response(404, picks)
       ELSE IF schedule[picks[k].event_id].start_time < now THEN Response(400, picks)
       ELSE Response(200, [picks EXCEPT ![k].prop_value = prop_value])

update_pick_response(user_id, pick_id, prop_value) ==
    LET found == { k \in DOMAIN picks : picks[k].id = pick_id /\ picks[k].user_id = user_id }
        k == CHOOSE j \in found : TRUE
    IN IF found = {} THEN Response(404, picks)
       ELSE IF picks[k].event_id \notin DOMAIN events THEN Response(404, picks)
       ELSE IF Started(picks[k].event_id) THEN Response(400, picks)
       ELSE Response(200, [picks EXCEPT ![k].prop_value = prop_value])

delete_pick_response(user_id, pick_id) ==
    LET found == { k \in DOMAIN picks : picks[k].id = pick_id /\ picks[k].user_id = user_id }
        k == CHOOSE j \in found : TRUE
    IN IF found = {} THEN Response(404, picks)
       ELSE IF picks[k].event_id \notin DOMAIN events THEN Response(404, picks)
       ELSE IF Started(picks[k].event_id) THEN Response(400, picks)
       ELSE Response(204, SelectSeq(picks, LAMBDA row : row.id /= pick_id))

\* A picks endpoint has answered: the call records the request, the clock
\* reading it compared with and the status code.
Answer(fn, user_id, event_id, response) ==
    /\ picks' = response.picks
    /\ call' = [fn |-> fn, args |-> << user_id, event_id, now >>,
                out |-> << response.status_code >>]
    /\ UNCHANGED << events, results, scores, audits, run, started, log, now, schedule, worker >>

create_pick(user_id, event_id, prop_type, prop_value) ==
    Answer("create_pick", user_id, event_id,
           create_pick_response(user_id, event_id, prop_type, prop_value))

update_pick(user_id, owner_id, event_id, prop_value) ==
    Answer("update_pick", user_id, event_id,
           update_pick_response(user_id, PickId(owner_id, event_id, RACE_WINNER), prop_value))

delete_pick(user_id, owner_id, event_id) ==
    Answer("delete_pick", user_id, event_id,
           delete_pick_response(user_id, PickId(owner_id, event_id, RACE_WINNER)))

\* The worker's jobs and the clock.
WorkerNext ==
    \/ Tick
    \/ update_event_statuses
    \/ \E e \in SystemEvents, session_data \in SessionData : IngestSessionResults(e, session_data)
    \/ TriggerScoring
    \/ WorkerReturn

WorkerSpec == SystemInit /\ [][WorkerNext]_vars

\* The scheduler runs update_event_statuses every 5 minutes for as long as the
\* worker is up, and time passes.
FairWorkerSpec == WorkerSpec /\ WF_vars(update_event_statuses) /\ WF_vars(Tick)

\* The backend's endpoints and the clock.
PicksNext ==
    \/ Tick
    \/ \E e \in SystemEvents : trigger_scoring(e)
    \/ \E u \in SystemUsers, e \in PickEvents, t \in PropTypeTexts, v \in PropValues :
          create_pick(u, e, t, v)
    \/ \E u \in SystemUsers, o \in SystemUsers, e \in SystemEvents, v \in PropValues :
          update_pick(u, o, e, v)
    \/ \E u \in SystemUsers, o \in SystemUsers, e \in SystemEvents : delete_pick(u, o, e)

\* The session type plays no part in the endpoints.
PicksInit == SystemInit /\ schedule["e1"].session_type = "race"

PicksSpec == PicksInit /\ [][PicksNext]_vars

\* C27: when ingest_session_results has stored an event's results and returned
\* True, its request reached the scoring trigger endpoint and score_event ran
\* for that event: the response was 200 and the run left its audit row.
C27_IngestionTriggersScoring ==
    (worker.pc = "done" /\ worker.returned = Some(TRUE)) =>
        /\ worker.status_code = 200
        /\ \E k \in DOMAIN audits : audits[k].entity_id = worker.event_id

\* C28: under repeated runs of update_event_statuses a status only advances
\* SCHEDULED -> LIVE (inside the window) or LIVE -> COMPLETED (after the end),
\* CANCELLED and COMPLETED events never change, and every SCHEDULED or LIVE
\* event whose end_time has passed eventually becomes COMPLETED.
C28_StatusAdvancesToCompleted ==
    /\ [][\A e \in DOMAIN events :
            events'[e] /= events[e] =>
               \/ /\ events[e] = SCHEDULED /\ events'[e] = LIVE
                  /\ schedule[e].start_time <= now /\ now < schedule[e].end_time
               \/ /\ events[e] = LIVE /\ events'[e] = COMPLETED
                  /\ schedule[e].end_time <= now]_vars
    /\ \A e \in SystemEvents :
          (events[e] \in { SCHEDULED, LIVE } /\ schedule[e].end_time <= now)
             ~> (events[e] = COMPLETED)

ResultsOf(event_id) == SelectSeq(results, LAMBDA row : row.event_id = event_id)

\* C29: after a successful ingest_session_results the event's Result rows are
\* exactly the rows transformed from the fetch just made, with at most one row
\* per category, and the event is COMPLETED.
C29_IngestionReplacesResults ==
    (worker.pc = "trigger" \/ (worker.pc = "done" /\ worker.returned = Some(TRUE))) =>
        LET e == worker.event_id
            result_type == IF schedule[e].session_type = "race" THEN "race" ELSE "qualifying"
            rows == ResultsOf(e)
        IN /\ rows = transform_results_to_db(worker.results_data, e, result_type)
           /\ \A j, k \in DOMAIN rows : rows[j].prop_type = rows[k].prop_type => j = k
           /\ events[e] = COMPLETED

\* Event e2, which had a Result naming Verstappen the winner, has been ingested
\* again from a classification that Hamilton won.
C29_Witness ==
    /\ worker.pc = "trigger" /\ worker.event_id = "e2"
    /\ Len(ResultsOf("e2")) = 2
    /\ ResultsOf("e2")[1].actual_value = "Lewis Hamilton"

PicksOf(event_id) == SelectSeq(picks, LAMBDA row : row.event_id = event_id)

PicksEndpoints == { "create_pick", "update_pick", "delete_pick" }

====
